---- MODULE Spec2Model ----
(***************************************************************************)
(* Character-level RNN notebook (Character_Level_RNN_Exercise-cn.ipynb):   *)
(* the alphabet cell, one_hot_encode, the mini-batch generator            *)
(* get_batches, the training loop train and the sampling loop              *)
(* sample/predict, as state machines.                                      *)
(*                                                                         *)
(* Arrays are 0-indexed functions, as in the notebook: a corpus of length  *)
(* L is a function on 0..L-1, an N x W matrix a function on 0..N-1 of      *)
(* functions on 0..W-1.  Lists a caller collects are sequences.            *)
(***************************************************************************)
EXTENDS Integers, Sequences, FiniteSets, TLC

\* ------------------------------------------------------------ bounds
\* Longest corpus handed to get_batches.
MaxLen == 8
\* Largest batch_size (N).
MaxBatch == 2
\* Largest seq_length (M).
MaxSeq == 3
\* Largest period of a repeating corpus.
MaxPeriod == 2
\* Vocabulary size V: len(net.chars).
V == 3
\* Longest prime handed to sample.
MaxPrime == 2
\* Largest size handed to sample.
MaxSize == 2
\* Most calls of sample in one run.
MaxCalls == 2
\* Longest text an alphabet is built from.
MaxText == 3
\* Most rows, most columns of an array handed to one_hot_encode.
MaxRows == 2
MaxCols == 2
\* Largest n_labels handed to one_hot_encode.
MaxLabels == 3
\* Largest epochs handed to train.
MaxEpochs == 2
\* Largest print_every handed to train.
MaxPrintEvery == 3

VARIABLES
    arr,          \* the caller's corpus, the array passed to get_batches
    corpus0,      \* the corpus as it was when the run began (never assigned)
    batch_size,   \* N
    seq_length,   \* M
    gst,          \* per generator object: "none", "created", "suspended", "done", "failed"
    fmat,         \* per frame: the local arr after truncation and reshape
    fn,           \* per frame: the value the range iterator yields next
    out,          \* per generator: the pairs its consumer has received, in order
    gerr,         \* per generator: the exception that ended it, or "none"
    net_mode,     \* the network's mode flag: "train" or "eval"
    prime,        \* sample's prime: the characters to warm the state with
    size,         \* sample's size: how many characters to generate
    top_k,        \* sample's top_k: [none |-> TRUE] for None, or the integer k
    spc,          \* where sample is: "idle", "priming", "generating", "returned", "failed"
    pi,           \* how many prime characters the first loop has taken
    ii,           \* how many rounds the second loop has made
    chars,        \* sample's list chars
    char,         \* sample's local char: <<>> while unbound, <<c>> once bound
    h,            \* the recurrent state: the symbols fed since init_hidden
    dist,         \* the distribution p of the latest predict (<<>> before any)
    result,       \* the string sample returned (<<>> while it has not)
    serr,         \* the exception that ended sample, or "none"
    mode_before,  \* the mode flag as the latest call of sample found it
    ncalls,       \* how many times sample has been called
    text,         \* the text read from the file, a sequence of characters
    text_chars,   \* chars = tuple(set(text)), a tuple indexed from 0
    int2char,     \* the dictionary from index to character
    char2int,     \* the dictionary from character to index
    encoded,      \* the text as an array of indices
    net_chars,    \* the network's self.chars
    net_int2char, \* the network's self.int2char
    net_char2int, \* the network's self.char2int
    apc,          \* how far the alphabet cell has run
    test_seq,     \* one_hot_encode's arr, a matrix of labels
    n_labels,     \* one_hot_encode's n_labels
    one_hot,      \* one_hot_encode's local one_hot
    opc,          \* where one_hot_encode is
    epochs,       \* train's epochs
    print_every,  \* train's print_every
    val_frac,     \* train's val_frac, in tenths
    tpc,          \* where train is: "idle", "epoch", "fetch", "step", "vfetch",
                  \* "vstep", "done", "failed"
    data,         \* train's local data after the split
    val_data,     \* train's local val_data
    e,            \* the epoch loop's e
    counter,      \* train's counter
    tn,           \* the training generator's n: the next window's first column
    vn,           \* the validation generator's n
    train_h,      \* train's h: the batches fed since init_hidden
    val_h,        \* train's val_h
    val_losses,   \* train's val_losses
    sweeps,       \* how many validation sweeps have begun
    terr          \* the exception that ended train, or "none"

bvars == <<arr, corpus0, batch_size, seq_length, gst, fmat, fn, out, gerr>>

svars == <<net_mode, prime, size, top_k, spc, pi, ii, chars, char, h, dist,
           result, serr, mode_before, ncalls>>

avars == <<text, text_chars, int2char, char2int, encoded, net_chars,
           net_int2char, net_char2int, apc>>

ovars == <<test_seq, n_labels, one_hot, opc>>

tvars == <<epochs, print_every, val_frac, tpc, data, val_data, e, counter,
           tn, vn, train_h, val_h, val_losses, sweeps, terr>>

vars == <<bvars, svars, avars, ovars, tvars>>

\* sample's variables but the network's mode flag.
slocals == <<prime, size, top_k, spc, pi, ii, chars, char, h, dist, result,
             serr, mode_before, ncalls>>

\* What get_batches leaves alone, what sample does, and what train does.
nonbvars == <<svars, avars, ovars, tvars>>
nonsvars == <<bvars, avars, ovars, tvars>>
nontvars == <<bvars, slocals, avars, ovars>>

\* The two generator objects a caller may hold at once.
Gens == {1, 2}

\* ------------------------------------------------------------ arrays
Length(a) == Cardinality(DOMAIN a)

\* arr[:k]
Prefix(a, k) == [p \in 0..(k - 1) |-> a[p]]

\* The corpus 0, 1, ..., L-1: every position holds its own index.
Identity(L) == [p \in 0..(L - 1) |-> p]

\* The corpus 0, 1, ..., v-1, 0, 1, ...: symbols repeat.
Periodic(L, v) == [p \in 0..(L - 1) |-> p % v]

Corpora ==
    {Identity(L) : L \in 1..MaxLen}
        \cup {Periodic(L, v) : L \in 1..MaxLen, v \in 1..MaxPeriod}

\* ------------------------------------------------------------ get_batches
\* n_batches: the number of batches of batch_size * seq_length characters
\* that fit in the array.
NBatches(a, N, M) == Length(a) \div (N * M)

\* Variant: the short corpus goes unnoticed.
InsufficientAlways(a, N, M) == FALSE

\* The corpus is too short for one batch.
Insufficient(a, N, M) == NBatches(a, N, M) = 0

\* arr = arr[:n_batches * batch_size * seq_length]
Truncated(a, N, M) == Prefix(a, NBatches(a, N, M) * N * M)

\* arr = arr.reshape((batch_size, -1)): row-major, each row one contiguous run.
Reshaped(a, N) ==
    LET w == Length(a) \div N
    IN  [i \in 0..(N - 1) |-> [c \in 0..(w - 1) |-> a[i * w + c]]]

\* arr.shape[1]
Shape1(mat) == IF DOMAIN mat = {} THEN 0 ELSE Length(mat[0])

\* arr[:, lo:hi]; a slice is clamped to the columns that exist.
Columns(mat, lo, hi) ==
    LET top == IF hi < Shape1(mat) THEN hi ELSE Shape1(mat)
    IN  [i \in DOMAIN mat |-> [j \in 0..(top - lo - 1) |-> mat[i][lo + j]]]

\* x = arr[:, n:n+seq_length]
Features(mat, n, M) == Columns(mat, n, n + M)

\* y: x shifted by one column; its last column is the column after the
\* window, or column 0 of the matrix when the window is the last one.
Targets(mat, n, M) ==
    LET x == Features(mat, n, M)
        w == Shape1(x)
    IN  [i \in DOMAIN mat |->
            [j \in 0..(w - 1) |->
                IF j < w - 1 THEN x[i][j + 1]
                ELSE IF n + M < Shape1(mat) THEN mat[i][n + M]
                ELSE mat[i][0]]]

\* Variant: yield y, x.
YieldSwapped(x, y) == [x |-> y, y |-> x]

\* yield x, y
Yield(x, y) == [x |-> x, y |-> y]

\* Variant: a step of seq_length + 1.
RangeStepOff(n, step) == n + step + 1

\* range(0, stop, step): the value after n.
RangeStep(n, step) == n + step

\* range(0, stop, step): whether n is still in the range.
RangeHas(n, stop) == n < stop

\* Variant: the loop's locals kept in one place for every call.
FrameShared(g) == 1

\* Each call of get_batches runs in a frame of its own: its locals (the
\* reshaped arr, the loop's n) belong to that generator object alone.
Frame(g) == g

\* get_batches(arr, batch_size, seq_length): a generator function, so the
\* call only makes the generator object; no line of the body has run.
GetBatches(g) ==
    /\ gst[g] = "none"
    /\ gst' = [gst EXCEPT ![g] = "created"]
    /\ UNCHANGED <<arr, corpus0, batch_size, seq_length, fmat, fn, out, gerr>>
    /\ UNCHANGED nonbvars

\* The first next(): the body runs from its top to the first yield, to the
\* end of the loop, or to the failure.
FirstNext(g) ==
    /\ gst[g] = "created"
    /\ IF Insufficient(arr, batch_size, seq_length)
       THEN /\ gst' = [gst EXCEPT ![g] = "failed"]
            /\ gerr' = [gerr EXCEPT ![g] = "InsufficientDataError"]
            /\ UNCHANGED <<fmat, fn, out>>
       ELSE LET mat == Reshaped(Truncated(arr, batch_size, seq_length), batch_size)
            IN  /\ fmat' = [fmat EXCEPT ![Frame(g)] = mat]
                /\ IF RangeHas(0, Shape1(mat))
                   THEN /\ out' = [out EXCEPT ![g] = Append(@,
                                      Yield(Features(mat, 0, seq_length),
                                            Targets(mat, 0, seq_length)))]
                        /\ fn' = [fn EXCEPT ![Frame(g)] = RangeStep(0, seq_length)]
                        /\ gst' = [gst EXCEPT ![g] = "suspended"]
                   ELSE /\ gst' = [gst EXCEPT ![g] = "done"]
                        /\ fn' = [fn EXCEPT ![Frame(g)] = 0]
                        /\ UNCHANGED out
                /\ UNCHANGED gerr
    /\ UNCHANGED <<arr, corpus0, batch_size, seq_length>>
    /\ UNCHANGED nonbvars

\* A later next(): the loop takes its next n and yields, or ends.
LaterNext(g) ==
    /\ gst[g] = "suspended"
    /\ LET mat == fmat[Frame(g)]
           n == fn[Frame(g)]
       IN  IF RangeHas(n, Shape1(mat))
           THEN /\ out' = [out EXCEPT ![g] = Append(@,
                              Yield(Features(mat, n, seq_length),
                                    Targets(mat, n, seq_length)))]
                /\ fn' = [fn EXCEPT ![Frame(g)] = RangeStep(n, seq_length)]
                /\ UNCHANGED gst
           ELSE /\ gst' = [gst EXCEPT ![g] = "done"]
                /\ UNCHANGED <<fn, out>>
    /\ UNCHANGED <<arr, corpus0, batch_size, seq_length, fmat, gerr>>
    /\ UNCHANGED nonbvars

\* No generator has been made.
BatchesIdle ==
    /\ gst = [g \in Gens |-> "none"]
    /\ fmat = [g \in Gens |-> <<>>]
    /\ fn = [g \in Gens |-> 0]
    /\ out = [g \in Gens |-> <<>>]
    /\ gerr = [g \in Gens |-> "none"]

\* sample has not been called.
SampleIdle ==
    /\ spc = "idle"
    /\ pi = 0
    /\ ii = 0
    /\ chars = <<>>
    /\ char = <<>>
    /\ h = <<>>
    /\ dist = <<>>
    /\ result = <<>>
    /\ serr = "none"
    /\ mode_before = net_mode
    /\ ncalls = 0

\* The alphabet cell has not run: there is no text yet.
AlphabetIdle ==
    /\ text = <<>>
    /\ text_chars = <<>>
    /\ int2char = <<>>
    /\ char2int = <<>>
    /\ encoded = <<>>
    /\ net_chars = <<>>
    /\ net_int2char = <<>>
    /\ net_char2int = <<>>
    /\ apc = "text"

\* one_hot_encode has not been called.
OneHotIdle ==
    /\ test_seq = <<>>
    /\ n_labels = 0
    /\ one_hot = <<>>
    /\ opc = "idle"

\* train has not been called.
TrainIdle ==
    /\ epochs = 0
    /\ print_every = 1
    /\ val_frac = 0
    /\ tpc = "idle"
    /\ data = <<>>
    /\ val_data = <<>>
    /\ e = 0
    /\ counter = 0
    /\ tn = 0
    /\ vn = 0
    /\ train_h = <<>>
    /\ val_h = <<>>
    /\ val_losses = <<>>
    /\ sweeps = 0
    /\ terr = "none"

InitBatches ==
    /\ arr \in Corpora
    /\ corpus0 = arr
    /\ batch_size \in 1..MaxBatch
    /\ seq_length \in 1..MaxSeq
    /\ BatchesIdle
    /\ net_mode = "train"
    /\ prime = <<>>
    /\ size = 0
    /\ top_k = [none |-> TRUE, k |-> 0]
    /\ SampleIdle
    /\ AlphabetIdle
    /\ OneHotIdle
    /\ TrainIdle

NextBatches ==
    \E g \in Gens :
        \/ GetBatches(g)
        \/ FirstNext(g)
        \/ LaterNext(g)

SpecBatches == InitBatches /\ [][NextBatches]_vars

\* ------------------------------------------------------------ get_batches: properties
\* K = floor(L / (N * M)) of the corpus the caller passed.
K0 == Length(corpus0) \div (batch_size * seq_length)

\* Whether m is a matrix with rows 0..N-1 and columns 0..M-1.
HasShape(m, N, M) ==
    /\ DOMAIN m = 0..(N - 1)
    /\ \A i \in DOMAIN m : DOMAIN m[i] = 0..(M - 1)

\* The reshaped N x (M*K) matrix, written from the corpus directly.
MatrixAt(i, c) == corpus0[i * seq_length * K0 + c]

\* C1: with N*M <= L, a generator run to exhaustion has yielded exactly
\* floor(L/(N*M)) pairs, it never fails, it never yields more than that, and
\* in every pair both x and y are N x M.
C1_BatchCountAndShape ==
    batch_size * seq_length <= Length(corpus0) =>
        \A g \in Gens :
            /\ gst[g] # "failed"
            /\ Len(out[g]) <= K0
            /\ gst[g] = "done" => Len(out[g]) = K0
            /\ \A k \in 1..Len(out[g]) :
                /\ HasShape(out[g][k].x, batch_size, seq_length)
                /\ HasShape(out[g][k].y, batch_size, seq_length)

\* A generator is exhausted after two or more batches of a corpus whose
\* length is no multiple of N*M.
C1_Witness ==
    \E g \in Gens :
        /\ gst[g] = "done"
        /\ Len(out[g]) >= 2
        /\ Length(corpus0) % (batch_size * seq_length) # 0

\* C2: in every pair yielded, y[i][j] = x[i][j+1] for every row i and every
\* column j with 0 <= j < M-1.
C2_ShiftByOne ==
    \A g \in Gens : \A k \in 1..Len(out[g]) :
        \A i \in 0..(batch_size - 1) : \A j \in 0..(seq_length - 2) :
            out[g][k].y[i][j] = out[g][k].x[i][j + 1]

\* A second pair of width 3 has been yielded from a corpus of distinct symbols.
C2_Witness ==
    \E g \in Gens :
        /\ Len(out[g]) >= 2
        /\ seq_length >= 3
        /\ corpus0 = Identity(Length(corpus0))

\* The first x of the corpus 0..7 with N = 2, M = 2.
ExampleFirstX == [i \in 0..1 |-> [j \in 0..1 |-> 4 * i + j]]

\* C3: the k-th pair (k = 0..K-1) has x[i][j] = corpus[i*M*K + k*M + j]; and
\* the corpus 0..7 with N = 2, M = 2 gives the first x = [[0,1],[4,5]].
C3_RowsAreContiguousStrides ==
    /\ \A g \in Gens : \A k \in 0..(Len(out[g]) - 1) :
        \A i \in 0..(batch_size - 1) : \A j \in 0..(seq_length - 1) :
            out[g][k + 1].x[i][j]
                = corpus0[i * seq_length * K0 + k * seq_length + j]
    /\ (corpus0 = Identity(8) /\ batch_size = 2 /\ seq_length = 2) =>
        \A g \in Gens : Len(out[g]) >= 1 => out[g][1].x = ExampleFirstX

\* The corpus 0..7 with N = 2, M = 2 has yielded both of its batches.
C3_Witness ==
    /\ corpus0 = Identity(8)
    /\ batch_size = 2
    /\ seq_length = 2
    /\ \E g \in Gens : Len(out[g]) = 2 /\ out[g][1].x = ExampleFirstX

\* C4: for the window starting at column n = k*M, the last column of y is
\* matrix[:, n+M] when n+M < M*K, and matrix[:, 0] for the final window.
C4_LastTargetColumn ==
    \A g \in Gens : \A k \in 0..(Len(out[g]) - 1) :
        \A i \in 0..(batch_size - 1) :
            LET n == k * seq_length
            IN  out[g][k + 1].y[i][seq_length - 1]
                    = IF n + seq_length < seq_length * K0
                      THEN MatrixAt(i, n + seq_length)
                      ELSE MatrixAt(i, 0)

\* A generator has yielded its final window after an earlier one, from a
\* corpus of distinct symbols with two rows.
C4_Witness ==
    \E g \in Gens :
        /\ gst[g] = "done"
        /\ Len(out[g]) >= 2
        /\ batch_size >= 2
        /\ corpus0 = Identity(Length(corpus0))

\* The cells (k, i, j) of the x matrices of generator g that hold symbol p.
CellsHolding(g, p) ==
    {c \in (1..Len(out[g])) \X (0..(batch_size - 1)) \X (0..(seq_length - 1)) :
        out[g][c[1]].x[c[2]][c[3]] = p}

\* C5: over a corpus whose symbol at position p is p, a generator run to
\* exhaustion has put each of the first K*N*M positions in exactly one x
\* cell and none of the trailing positions in any.
C5_WindowsPartitionTruncatedCorpus ==
    \A g \in Gens :
        (gst[g] = "done" /\ corpus0 = Identity(Length(corpus0))) =>
            \A p \in 0..(Length(corpus0) - 1) :
                Cardinality(CellsHolding(g, p))
                    = IF p < K0 * batch_size * seq_length THEN 1 ELSE 0

\* A generator is exhausted over a corpus of distinct symbols with a
\* remainder that was dropped.
C5_Witness ==
    \E g \in Gens :
        /\ gst[g] = "done"
        /\ Len(out[g]) >= 2
        /\ corpus0 = Identity(Length(corpus0))
        /\ Length(corpus0) > K0 * batch_size * seq_length

IsPrefix(s, t) == Len(s) <= Len(t) /\ \A k \in 1..Len(s) : s[k] = t[k]

\* C7: the pairs two generators over the same (corpus, N, M) have yielded
\* agree position by position however far each was consumed, two exhausted
\* generators have yielded the same sequence, and the corpus is unchanged.
C7_CallsAreIndependent ==
    /\ arr = corpus0
    /\ \A g \in Gens : \A g2 \in Gens :
        /\ IsPrefix(out[g], out[g2]) \/ IsPrefix(out[g2], out[g])
        /\ (gst[g] = "done" /\ gst[g2] = "done") => out[g] = out[g2]

\* One generator is exhausted after three batches while the other, made
\* first or later, is suspended after a single batch.
C7_Witness ==
    \E g \in Gens : \E g2 \in Gens :
        /\ gst[g] = "done"
        /\ Len(out[g]) >= 3
        /\ gst[g2] = "suspended"
        /\ Len(out[g2]) = 1

\* ------------------------------------------------------------ the network
\* The characters a vocabulary is drawn from.
Alphabet == <<"a", "b", "c", "d", "e", "f">>

\* The symbol indices 0..V-1.
Symbols == 0..(V - 1)

\* net.chars: the tuple of the vocabulary's characters.
Tokens == [i \in Symbols |-> Alphabet[i + 1]]

\* net.int2char = dict(enumerate(self.chars))
Int2Char(i) == Tokens[i]

\* net.char2int = {ch: ii for ii, ch in self.int2char.items()}
Char2Int(c) == CHOOSE i \in Symbols : Tokens[i] = c

\* The relative weights a probability may take: softmax gives every symbol
\* a positive probability; two levels give ties and strict orders.
Weights == {1, 2}

\* The distributions p = F.softmax(out, dim=1) may be, up to scale.
Dists == [Symbols -> Weights]

\* net.init_hidden(1): the zero state, no symbol fed yet.
InitHidden == <<>>

\* Variant: the state passed in is dropped.
NetStateForgets(hh, x) == <<x>>

\* out, h = net(inputs, h): the new state is the old one and the symbol fed.
NetState(hh, x) == Append(hh, x)

\* ------------------------------------------------------------ predict
\* p.topk(k): the index sets topk may return, k symbols none of which has a
\* lower probability than a symbol left out (ties broken either way).
TopKSets(p, k) ==
    {S \in SUBSET Symbols :
        /\ Cardinality(S) = k
        /\ \A s \in S : \A t \in Symbols \ S : p[s] >= p[t]}

\* Variant: top_k ignored, every index a candidate.
TopChIgnoresK(p, tk) == {Symbols}

\* top_ch: np.arange(len(net.chars)) when top_k is None, else the indices
\* p.topk(top_k) returns.
TopCh(p, tk) == IF tk.none THEN {Symbols} ELSE TopKSets(p, tk.k)

\* The exceptions predict ends with for distribution p, or {} when it draws.
\*   k < 0 or k > V: p.topk raises RuntimeError (k out of range);
\*   k = 0: topk returns nothing and np.random.choice raises ValueError on
\*          an empty array;
\*   k = 1: squeeze() turns the 1 x 1 arrays top_ch and p into 0-d arrays;
\*          np.random.choice reads a 0-d top_ch as the integer c and raises
\*          ValueError for c = 0, and TypeError on len(p) otherwise.
PredictErrors(p, tk) ==
    IF tk.none THEN {}
    ELSE IF tk.k < 0 \/ tk.k > V THEN {"RuntimeError"}
    ELSE IF tk.k = 0 THEN {"ValueError"}
    ELSE IF tk.k = 1
         THEN {IF c = 0 THEN "ValueError" ELSE "TypeError" :
                  c \in UNION TopKSets(p, 1)}
    ELSE {}

\* predict(net, char, h, top_k): every outcome the call may have. The symbol
\* drawn is any member of top_ch (each has a positive probability).
Predict(ch, hh, tk) ==
    LET x == Char2Int(ch)
        h2 == NetState(hh, x)
    IN  UNION {
            IF PredictErrors(p, tk) # {}
            THEN {[err |-> x2, char |-> <<>>, h |-> h2, p |-> p] :
                     x2 \in PredictErrors(p, tk)}
            ELSE {[err |-> "none", char |-> <<Int2Char(c)>>, h |-> h2, p |-> p] :
                     c \in UNION TopCh(p, tk)}
            : p \in Dists}

\* ------------------------------------------------------------ sample
\* Variant: the mode flag left as it was.
ModeKept(m) == m

\* net.eval(): the mode flag after the call, whatever it was.
ModeAfterEval(m) == "eval"

\* Variant: chars.insert(0, char).
ListPrepend(l, c) == <<c>> \o l

\* chars.append(char)
ListAppend(l, c) == Append(l, c)

\* Variant: chars[0].
FirstOf(l) == l[1]

\* chars[-1]: the character the second loop feeds to predict.
LastOf(l) == l[Len(l)]

\* A prime of n characters starting at token s.
PrimeOf(n, s) == [k \in 1..n |-> Tokens[(s + k - 1) % V]]

Primes == {PrimeOf(n, s) : n \in 0..MaxPrime, s \in 0..1}

NoTopK == [none |-> TRUE, k |-> 0]

TopKs == {NoTopK} \cup {[none |-> FALSE, k |-> k] : k \in (0 - 1)..(V + 1)}

\* sample(net, size, prime, top_k) up to the first loop: net.eval(),
\* chars = [ch for ch in prime], h = net.init_hidden(1). The caller may call
\* again, with the same arguments, once a call has returned or failed.
\* A prime character that is not in the vocabulary is not modelled.
SampleCall ==
    /\ spc \in {"idle", "returned", "failed"}
    /\ ncalls < MaxCalls
    /\ ncalls' = ncalls + 1
    /\ mode_before' = net_mode
    /\ net_mode' = ModeAfterEval(net_mode)
    /\ chars' = prime
    /\ h' = InitHidden
    /\ char' = <<>>
    /\ dist' = <<>>
    /\ pi' = 0
    /\ ii' = 0
    /\ result' = <<>>
    /\ serr' = "none"
    /\ spc' = "priming"
    /\ UNCHANGED <<prime, size, top_k>>
    /\ UNCHANGED nonsvars

\* for ch in prime: char, h = predict(net, ch, h, top_k=top_k)
PrimeStep ==
    /\ spc = "priming"
    /\ pi < Len(prime)
    /\ \E o \in Predict(prime[pi + 1], h, top_k) :
        /\ dist' = o.p
        /\ IF o.err # "none"
           THEN /\ spc' = "failed"
                /\ serr' = o.err
                /\ UNCHANGED <<char, h, pi>>
           ELSE /\ char' = o.char
                /\ h' = o.h
                /\ pi' = pi + 1
                /\ UNCHANGED <<spc, serr>>
    /\ UNCHANGED <<net_mode, prime, size, top_k, ii, chars, result>>
    /\ UNCHANGED <<mode_before, ncalls>>
    /\ UNCHANGED nonsvars

\* chars.append(char): char is unbound when the first loop made no round.
AppendPrimed ==
    /\ spc = "priming"
    /\ pi = Len(prime)
    /\ IF char = <<>>
       THEN /\ spc' = "failed"
            /\ serr' = "UnboundLocalError"
            /\ UNCHANGED chars
       ELSE /\ chars' = ListAppend(chars, char[1])
            /\ spc' = "generating"
            /\ UNCHANGED serr
    /\ UNCHANGED <<net_mode, prime, size, top_k, pi, ii, char, h, dist, result>>
    /\ UNCHANGED <<mode_before, ncalls>>
    /\ UNCHANGED nonsvars

\* for ii in range(size): char, h = predict(net, chars[-1], h, top_k=top_k);
\* chars.append(char)
GenStep ==
    /\ spc = "generating"
    /\ ii < size
    /\ \E o \in Predict(LastOf(chars), h, top_k) :
        /\ dist' = o.p
        /\ IF o.err # "none"
           THEN /\ spc' = "failed"
                /\ serr' = o.err
                /\ UNCHANGED <<char, h, ii, chars>>
           ELSE /\ char' = o.char
                /\ h' = o.h
                /\ chars' = ListAppend(chars, o.char[1])
                /\ ii' = ii + 1
                /\ UNCHANGED <<spc, serr>>
    /\ UNCHANGED <<net_mode, prime, size, top_k, pi, result>>
    /\ UNCHANGED <<mode_before, ncalls>>
    /\ UNCHANGED nonsvars

\* return ''.join(chars)
Return ==
    /\ spc = "generating"
    /\ ii >= size
    /\ result' = chars
    /\ spc' = "returned"
    /\ UNCHANGED <<net_mode, prime, size, top_k, pi, ii, chars, char, h, dist, serr>>
    /\ UNCHANGED <<mode_before, ncalls>>
    /\ UNCHANGED nonsvars

InitSample ==
    /\ arr = Identity(1)
    /\ corpus0 = arr
    /\ batch_size = 1
    /\ seq_length = 1
    /\ BatchesIdle
    /\ net_mode \in {"train", "eval"}
    /\ prime \in Primes
    /\ size \in 0..MaxSize
    /\ top_k \in TopKs
    /\ SampleIdle
    /\ AlphabetIdle
    /\ OneHotIdle
    /\ TrainIdle

NextSample ==
    \/ SampleCall
    \/ PrimeStep
    \/ AppendPrimed
    \/ GenStep
    \/ Return

SpecSample == InitSample /\ [][NextSample]_vars

\* ------------------------------------------------------------ sample: properties
\* top_k is unset or one of 1..V.
ValidTopK == top_k.none \/ (1 <= top_k.k /\ top_k.k <= V)

\* The latest call of sample has ended, by a return or by an exception.
SampleEnded == spc \in {"returned", "failed"}

\* C8: for every non-empty prime P, every size L >= 0 and every valid top_k
\* (unset or 1..V), a call of sample that has ended has returned a sequence
\* of exactly len(P) + 1 + L symbols.
C8_SampleLength ==
    (SampleEnded /\ prime # <<>> /\ ValidTopK) =>
        /\ spc = "returned"
        /\ Len(result) = Len(prime) + 1 + size

\* The symbols whose probability in the latest distribution is strictly
\* higher than that of symbol c.
StrictlyAbove(c) == {t \in Symbols : dist[t] > dist[c]}

\* C9: with top_k = K, 1 <= K <= V, the symbol the latest predict drew, in
\* the priming loop or in the generation loop, is among the K most probable
\* of that call's distribution: fewer than K symbols are strictly more
\* probable than it.
C9_DrawnSymbolAmongTopK ==
    (~top_k.none /\ 1 <= top_k.k /\ top_k.k <= V /\ char # <<>>) =>
        Cardinality(StrictlyAbove(Char2Int(char[1]))) < top_k.k

\* A generation step has drawn with top_k = 2 from a distribution whose two
\* most probable symbols are strictly above the rest.
C9_Witness ==
    /\ ~top_k.none
    /\ top_k.k = 2
    /\ spc = "generating"
    /\ ii >= 1
    /\ char # <<>>
    /\ Cardinality({t \in Symbols : dist[t] = 2}) = 2
    /\ \E t \in Symbols : dist[t] = 1

\* C10: sample called with an empty prime fails with EmptyPrimeError, with
\* no symbol appended to chars and no sequence returned.
C10_EmptyPrimeError ==
    (prime = <<>> /\ spc \in {"generating", "returned", "failed"}) =>
        /\ spc = "failed"
        /\ serr = "EmptyPrimeError"
        /\ chars = <<>>
        /\ result = <<>>

\* top_k is set and is not one of 1..V.
InvalidTopK == ~top_k.none /\ (top_k.k <= 0 \/ top_k.k > V)

\* C11: sample called with top_k <= 0 or top_k > V fails with
\* InvalidTopKError, before any symbol is drawn.
C11_InvalidTopKError ==
    (InvalidTopK /\ SampleEnded) =>
        /\ spc = "failed"
        /\ serr = "InvalidTopKError"
        /\ char = <<>>
        /\ chars = prime

NewCall == spc # "priming" /\ spc' = "priming"

\* C13: chars starts with prime at every moment of a call, every step of a
\* call leaves it alone or adds exactly one symbol at its end, and the
\* sequence returned is the list as it then stands.
C13_CharsAppendOnly ==
    /\ [](spc # "idle" => IsPrefix(prime, chars))
    /\ [](spc = "returned" => result = chars)
    /\ [][~NewCall =>
            \/ chars' = chars
            \/ (Len(chars') = Len(chars) + 1 /\ IsPrefix(chars, chars'))]_vars

\* sample has returned five symbols: a prime of two, the one predicted after
\* it and two generated.
C13_Witness ==
    /\ spc = "returned"
    /\ Len(prime) = 2
    /\ size = 2
    /\ Len(result) = 5
    /\ IsPrefix(prime, result)

\* C14: the j-th round of the generation loop fed the model the symbol that
\* was last in chars at that moment, chars[len(prime) + j]; the first round
\* is fed the symbol predicted after the last prime symbol.
C14_GenerationFeedsLastSymbol ==
    spc \in {"generating", "returned"} =>
        /\ \A j \in 1..ii :
            h[Len(prime) + j] = Char2Int(chars[Len(prime) + j])
        /\ ii = 0 => chars[Len(chars)] = char[1]
        /\ Len(chars) = Len(prime) + 1 + ii

\* Two generation rounds were fed different symbols, neither the first of
\* chars.
C14_Witness ==
    /\ spc = "returned"
    /\ Len(prime) = 2
    /\ ii = 2
    /\ chars[3] # chars[4]
    /\ chars[3] # chars[1]
    /\ h[3] = Char2Int(chars[3])
    /\ h[4] = Char2Int(chars[4])

\* C15: a call of sample begins with the initial state, every step of the
\* call hands on the state the step before returned (the state only ever
\* grows by the symbol fed, through both loops), and so the state holds one
\* symbol per step of this call and none of an earlier call.
C15_StateIsThreaded ==
    /\ [](spc # "idle" => Len(h) = pi + ii)
    /\ [][NewCall => h' = InitHidden]_vars
    /\ [][~NewCall =>
            \/ h' = h
            \/ (Len(h') = Len(h) + 1 /\ IsPrefix(h, h'))]_vars

\* A second call of sample is in its generation loop, with the state of
\* its two priming steps and one generation step.
C15_Witness ==
    /\ ncalls = 2
    /\ spc = "generating"
    /\ Len(prime) = 2
    /\ ii = 1
    /\ Len(h) = 3

\* C16: for every non-empty prime and every size, under every valid top_k,
\* sample ends by returning, having invoked the model len(P) + L times:
\* once per prime symbol in prime order, then L times.
C16_ModelInvocations ==
    (SampleEnded /\ prime # <<>> /\ ValidTopK) =>
        /\ spc = "returned"
        /\ Len(h) = Len(prime) + size
        /\ pi = Len(prime)
        /\ ii = size
        /\ \A k \in 1..Len(prime) : h[k] = Char2Int(prime[k])

\* ------------------------------------------------------------ the alphabet
\* The characters a text is written in.
Letters == {Tokens[i] : i \in Symbols}

\* The texts read from the file: every string of up to MaxText letters.
Texts == UNION {[1..n -> Letters] : n \in 0..MaxText}

\* The distinct characters of a string.
SetOf(t) == {t[k] : k \in 1..Len(t)}

\* Variant: tuple(text), the characters of the text in order, repeats kept.
TupleOfText(t) == {[i \in 0..(Len(t) - 1) |-> t[i + 1]]}

\* tuple(set(text)): the distinct characters in the order the set iterates,
\* which may be any order.
TupleOfSet(t) ==
    {f \in [0..(Cardinality(SetOf(t)) - 1) -> SetOf(t)] :
        \A c \in SetOf(t) : \E i \in DOMAIN f : f[i] = c}

\* dict(enumerate(chars)): index i maps to chars[i].
DictEnumerate(c) == [i \in 0..(Length(c) - 1) |-> c[i]]

\* {ch: ii for ii, ch in d.items()}: items are visited in index order, and a
\* later item replaces an earlier one with the same key.
DictInverse(d) ==
    [ch \in {d[i] : i \in DOMAIN d} |->
        CHOOSE i \in DOMAIN d :
            /\ d[i] = ch
            /\ \A j \in DOMAIN d : d[j] = ch => j <= i]

\* np.array([char2int[ch] for ch in text])
EncodeText(t, c2i) == [p \in 0..(Len(t) - 1) |-> c2i[t[p + 1]]]

\* chars = tuple(set(text))
BuildChars ==
    /\ apc = "text"
    /\ text_chars' \in TupleOfSet(text)
    /\ apc' = "chars"
    /\ UNCHANGED <<text, int2char, char2int, encoded, net_chars,
                   net_int2char, net_char2int>>
    /\ UNCHANGED <<bvars, svars, ovars, tvars>>

\* int2char = dict(enumerate(chars))
BuildInt2Char ==
    /\ apc = "chars"
    /\ int2char' = DictEnumerate(text_chars)
    /\ apc' = "int2char"
    /\ UNCHANGED <<text, text_chars, char2int, encoded, net_chars,
                   net_int2char, net_char2int>>
    /\ UNCHANGED <<bvars, svars, ovars, tvars>>

\* char2int = {ch: ii for ii, ch in int2char.items()}
BuildChar2Int ==
    /\ apc = "int2char"
    /\ char2int' = DictInverse(int2char)
    /\ apc' = "char2int"
    /\ UNCHANGED <<text, text_chars, int2char, encoded, net_chars,
                   net_int2char, net_char2int>>
    /\ UNCHANGED <<bvars, svars, ovars, tvars>>

\* encoded = np.array([char2int[ch] for ch in text])
EncodeCorpus ==
    /\ apc = "char2int"
    /\ encoded' = EncodeText(text, char2int)
    /\ apc' = "encoded"
    /\ UNCHANGED <<text, text_chars, int2char, char2int, net_chars,
                   net_int2char, net_char2int>>
    /\ UNCHANGED <<bvars, svars, ovars, tvars>>

\* net = CharRNN(chars, ...): self.chars = tokens, self.int2char =
\* dict(enumerate(self.chars)), self.char2int = {ch: ii for ii, ch in
\* self.int2char.items()}
NetInit ==
    /\ apc = "encoded"
    /\ net_chars' = text_chars
    /\ net_int2char' = DictEnumerate(text_chars)
    /\ net_char2int' = DictInverse(DictEnumerate(text_chars))
    /\ apc' = "net"
    /\ UNCHANGED <<text, text_chars, int2char, char2int, encoded>>
    /\ UNCHANGED <<bvars, svars, ovars, tvars>>

InitAlphabet ==
    /\ arr = Identity(1)
    /\ corpus0 = arr
    /\ batch_size = 1
    /\ seq_length = 1
    /\ BatchesIdle
    /\ net_mode = "train"
    /\ prime = <<>>
    /\ size = 0
    /\ top_k = NoTopK
    /\ SampleIdle
    /\ text \in Texts
    /\ text_chars = <<>>
    /\ int2char = <<>>
    /\ char2int = <<>>
    /\ encoded = <<>>
    /\ net_chars = <<>>
    /\ net_int2char = <<>>
    /\ net_char2int = <<>>
    /\ apc = "text"
    /\ OneHotIdle
    /\ TrainIdle

NextAlphabet ==
    \/ BuildChars
    \/ BuildInt2Char
    \/ BuildChar2Int
    \/ EncodeCorpus
    \/ NetInit

SpecAlphabet == InitAlphabet /\ [][NextAlphabet]_vars

\* ------------------------------------------------------------ the alphabet: properties
\* i2c and c2i are inverse bijections between the characters of the text
\* and 0..V-1, V the number of distinct characters.
Bijection(i2c, c2i) ==
    /\ DOMAIN i2c = 0..(Cardinality(SetOf(text)) - 1)
    /\ DOMAIN c2i = SetOf(text)
    /\ \A c \in SetOf(text) : i2c[c2i[c]] = c
    /\ \A i \in 0..(Cardinality(SetOf(text)) - 1) : c2i[i2c[i]] = i

\* C17: once both dictionaries are built they are inverse bijections
\* between the characters of the text and 0..V-1, the network's copies
\* too, and decoding the encoded corpus index by index gives the text back.
C17_AlphabetBijection ==
    /\ apc \in {"char2int", "encoded", "net"} => Bijection(int2char, char2int)
    /\ apc \in {"encoded", "net"} =>
        /\ DOMAIN encoded = 0..(Len(text) - 1)
        /\ \A k \in 1..Len(text) : int2char[encoded[k - 1]] = text[k]
    /\ apc = "net" =>
        /\ Bijection(net_int2char, net_char2int)
        /\ \A k \in 1..Len(text) : net_int2char[encoded[k - 1]] = text[k]

\* A text of three characters, one repeated, whose first character did not
\* get index 0, has been encoded and the network built.
C17_Witness ==
    /\ apc = "net"
    /\ Len(text) = 3
    /\ text[1] = text[3]
    /\ text[1] # text[2]
    /\ encoded[0] = 1
    /\ encoded[1] = 0
    /\ encoded[2] = 1

\* ------------------------------------------------------------ one_hot_encode
\* arr.shape of a matrix with at least one row.
Rows(a) == Length(a)
Cols(a) == Length(a[0])

\* The R x C matrices of labels below n.
Matrices(R, C, n) == [0..(R - 1) -> [0..(C - 1) -> 0..(n - 1)]]

\* Variant: arr.flatten('F'), column by column.
FlattenColumns(a) ==
    [r \in 0..(Rows(a) * Cols(a) - 1) |-> a[r % Rows(a)][r \div Rows(a)]]

\* arr.flatten(): row by row.
Flatten(a) ==
    [r \in 0..(Rows(a) * Cols(a) - 1) |-> a[r \div Cols(a)][r % Cols(a)]]

\* np.zeros((rows, n))
Zeros(rows, n) == [r \in 0..(rows - 1) |-> [k \in 0..(n - 1) |-> 0]]

\* one_hot[np.arange(one_hot.shape[0]), idx] = 1.: row r gets a 1 in
\* column idx[r].
FillOnes(m, idx) ==
    [r \in DOMAIN m |-> [k \in DOMAIN m[r] |-> IF k = idx[r] THEN 1 ELSE m[r][k]]]

\* one_hot.reshape((R, C, n)) of a matrix of R * C rows.
Reshape3(m, R, C) ==
    [i \in 0..(R - 1) |-> [j \in 0..(C - 1) |-> m[i * C + j]]]

\* one_hot_encode(arr, n_labels) is called.
OneHotCall ==
    /\ opc = "idle"
    /\ \E R \in 1..MaxRows, C \in 1..MaxCols, n \in 1..MaxLabels :
        /\ test_seq' \in Matrices(R, C, n)
        /\ n_labels' = n
    /\ opc' = "called"
    /\ UNCHANGED one_hot
    /\ UNCHANGED <<bvars, svars, avars, tvars>>

\* one_hot = np.zeros((np.multiply(*arr.shape), n_labels))
OneHotZeros ==
    /\ opc = "called"
    /\ one_hot' = Zeros(Rows(test_seq) * Cols(test_seq), n_labels)
    /\ opc' = "zeros"
    /\ UNCHANGED <<test_seq, n_labels>>
    /\ UNCHANGED <<bvars, svars, avars, tvars>>

\* one_hot[np.arange(one_hot.shape[0]), arr.flatten()] = 1.
OneHotFill ==
    /\ opc = "zeros"
    /\ one_hot' = FillOnes(one_hot, Flatten(test_seq))
    /\ opc' = "filled"
    /\ UNCHANGED <<test_seq, n_labels>>
    /\ UNCHANGED <<bvars, svars, avars, tvars>>

\* one_hot = one_hot.reshape((*arr.shape, n_labels)); return one_hot
OneHotReshape ==
    /\ opc = "filled"
    /\ one_hot' = Reshape3(one_hot, Rows(test_seq), Cols(test_seq))
    /\ opc' = "returned"
    /\ UNCHANGED <<test_seq, n_labels>>
    /\ UNCHANGED <<bvars, svars, avars, tvars>>

InitOneHot ==
    /\ arr = Identity(1)
    /\ corpus0 = arr
    /\ batch_size = 1
    /\ seq_length = 1
    /\ BatchesIdle
    /\ net_mode = "train"
    /\ prime = <<>>
    /\ size = 0
    /\ top_k = NoTopK
    /\ SampleIdle
    /\ AlphabetIdle
    /\ OneHotIdle
    /\ TrainIdle

NextOneHot ==
    \/ OneHotCall
    \/ OneHotZeros
    \/ OneHotFill
    \/ OneHotReshape

SpecOneHot == InitOneHot /\ [][NextOneHot]_vars

\* ------------------------------------------------------------ one_hot_encode: properties
\* C18: the array one_hot_encode returns has shape (rows, cols, n_labels),
\* holds 1 at [i][j][k] exactly when k = arr[i][j] and 0 elsewhere, so
\* every position carries one 1 and its index is arr[i][j].
C18_OneHotEncode ==
    opc = "returned" =>
        /\ DOMAIN one_hot = 0..(Rows(test_seq) - 1)
        /\ \A i \in DOMAIN test_seq :
            /\ DOMAIN one_hot[i] = 0..(Cols(test_seq) - 1)
            /\ \A j \in DOMAIN test_seq[i] :
                /\ DOMAIN one_hot[i][j] = 0..(n_labels - 1)
                /\ \A k \in 0..(n_labels - 1) :
                    one_hot[i][j][k] = IF k = test_seq[i][j] THEN 1 ELSE 0
                /\ {k \in 0..(n_labels - 1) : one_hot[i][j][k] = 1}
                       = {test_seq[i][j]}

\* A 2 x 2 array whose off-diagonal entries differ has been encoded.
C18_Witness ==
    /\ opc = "returned"
    /\ Rows(test_seq) = 2
    /\ Cols(test_seq) = 2
    /\ n_labels = 3
    /\ test_seq[0][1] = 2
    /\ test_seq[1][0] = 0
    /\ one_hot[0][1][2] = 1
    /\ one_hot[1][0][0] = 1

\* ------------------------------------------------------------ train
\* The values of val_frac, in tenths: the default 0.1, and a half.
ValFracs == {1, 5}

\* int(len(data) * (1 - val_frac)), val_frac in tenths.
ValIdx(L, f) == (L * (10 - f)) \div 10

\* data[k:]
Suffix(a, k) == [p \in 0..(Length(a) - k - 1) |-> a[k + p]]

\* Variant: the mode flag is left as the validation loop set it.
ModeAfterTrainStays(m) == m

\* net.train(): the mode flag after the call, whatever it was.
ModeAfterTrain(m) == "train"

\* Variant: the state of the epoch before is kept.
EpochHiddenCarried(hh) == hh

\* h = net.init_hidden(batch_size) at the top of an epoch: the initial
\* state, whatever h was.
EpochHidden(hh) == InitHidden

\* Variant: the report comes one step late.
SweepDueLate(c, pe) == c % pe = 1

\* if counter % print_every == 0
SweepDue(c, pe) == c % pe = 0

\* The width of the matrix get_batches(a, batch_size, seq_length) walks.
Width(a) == Shape1(Reshaped(Truncated(a, batch_size, seq_length), batch_size))

\* train(net, data, ...) up to the epoch loop: net.train(), the split of
\* data, counter = 0.
TrainCall ==
    /\ tpc = "idle"
    /\ net_mode' = ModeAfterTrain(net_mode)
    /\ data' = Prefix(arr, ValIdx(Length(arr), val_frac))
    /\ val_data' = Suffix(arr, ValIdx(Length(arr), val_frac))
    /\ counter' = 0
    /\ e' = 0
    /\ tpc' = "epoch"
    /\ UNCHANGED <<epochs, print_every, val_frac, tn, vn, train_h, val_h,
                   val_losses, sweeps, terr>>
    /\ UNCHANGED nontvars

\* for e in range(epochs): h = net.init_hidden(batch_size), and the call
\* get_batches(data, batch_size, seq_length); or the end of train.
EpochStart ==
    /\ tpc = "epoch"
    /\ IF RangeHas(e, epochs)
       THEN /\ train_h' = EpochHidden(train_h)
            /\ tn' = 0
            /\ tpc' = "fetch"
       ELSE /\ tpc' = "done"
            /\ UNCHANGED <<train_h, tn>>
    /\ UNCHANGED <<epochs, print_every, val_frac, data, val_data, e, counter,
                   vn, val_h, val_losses, sweeps, terr>>
    /\ UNCHANGED <<net_mode, nontvars>>

\* for x, y in get_batches(data, ...): the generator gives the next batch,
\* ends (and the next epoch follows), or fails on data too short.
TrainFetch ==
    /\ tpc = "fetch"
    /\ IF Insufficient(data, batch_size, seq_length)
       THEN /\ tpc' = "failed"
            /\ terr' = "InsufficientDataError"
            /\ UNCHANGED e
       ELSE /\ IF RangeHas(tn, Width(data))
               THEN /\ tpc' = "step"
                    /\ UNCHANGED e
               ELSE /\ tpc' = "epoch"
                    /\ e' = e + 1
            /\ UNCHANGED terr
    /\ UNCHANGED <<epochs, print_every, val_frac, data, val_data, counter, tn,
                   vn, train_h, val_h, val_losses, sweeps>>
    /\ UNCHANGED <<net_mode, nontvars>>

\* The body of the training loop: counter += 1, the forward and backward
\* pass and the optimizer step on the batch, then, if the counter is due,
\* val_h = net.init_hidden(batch_size), val_losses = [], net.eval() and the
\* call get_batches(val_data, ...).
TrainStep ==
    /\ tpc = "step"
    /\ counter' = counter + 1
    /\ train_h' = NetState(train_h, tn)
    /\ tn' = RangeStep(tn, seq_length)
    /\ IF SweepDue(counter + 1, print_every)
       THEN /\ val_h' = InitHidden
            /\ val_losses' = <<>>
            /\ net_mode' = ModeAfterEval(net_mode)
            /\ vn' = 0
            /\ sweeps' = sweeps + 1
            /\ tpc' = "vfetch"
       ELSE /\ tpc' = "fetch"
            /\ UNCHANGED <<val_h, val_losses, net_mode, vn, sweeps>>
    /\ UNCHANGED <<epochs, print_every, val_frac, data, val_data, e, terr>>
    /\ UNCHANGED nontvars

\* for x, y in get_batches(val_data, ...): the generator gives the next
\* batch, fails on val_data too short, or ends, and then net.train() and
\* the report follow.
ValFetch ==
    /\ tpc = "vfetch"
    /\ IF Insufficient(val_data, batch_size, seq_length)
       THEN /\ tpc' = "failed"
            /\ terr' = "InsufficientDataError"
            /\ UNCHANGED net_mode
       ELSE /\ IF RangeHas(vn, Width(val_data))
               THEN /\ tpc' = "vstep"
                    /\ UNCHANGED net_mode
               ELSE /\ net_mode' = ModeAfterTrain(net_mode)
                    /\ tpc' = "fetch"
            /\ UNCHANGED terr
    /\ UNCHANGED <<epochs, print_every, val_frac, data, val_data, e, counter,
                   tn, vn, train_h, val_h, val_losses, sweeps>>
    /\ UNCHANGED nontvars

\* The body of the validation loop: the forward pass on the batch and
\* val_losses.append(val_loss.item()).
ValStep ==
    /\ tpc = "vstep"
    /\ val_h' = NetState(val_h, vn)
    /\ val_losses' = Append(val_losses, vn)
    /\ vn' = RangeStep(vn, seq_length)
    /\ tpc' = "vfetch"
    /\ UNCHANGED <<epochs, print_every, val_frac, data, val_data, e, counter,
                   tn, train_h, sweeps, terr>>
    /\ UNCHANGED <<net_mode, nontvars>>

InitTrain ==
    /\ arr \in {Identity(L) : L \in 0..MaxLen}
    /\ corpus0 = arr
    /\ batch_size \in 1..MaxBatch
    /\ seq_length \in 1..MaxSeq
    /\ BatchesIdle
    /\ net_mode \in {"train", "eval"}
    /\ prime = <<>>
    /\ size = 0
    /\ top_k = NoTopK
    /\ SampleIdle
    /\ AlphabetIdle
    /\ OneHotIdle
    /\ epochs \in 0..MaxEpochs
    /\ print_every \in 1..MaxPrintEvery
    /\ val_frac \in ValFracs
    /\ tpc = "idle"
    /\ data = <<>>
    /\ val_data = <<>>
    /\ e = 0
    /\ counter = 0
    /\ tn = 0
    /\ vn = 0
    /\ train_h = <<>>
    /\ val_h = <<>>
    /\ val_losses = <<>>
    /\ sweeps = 0
    /\ terr = "none"

NextTrain ==
    \/ TrainCall
    \/ EpochStart
    \/ TrainFetch
    \/ TrainStep
    \/ ValFetch
    \/ ValStep

SpecTrain == InitTrain /\ [][NextTrain]_vars

\* ------------------------------------------------------------ train: properties
\* C19: whenever train is about to run, or has run, a training step the
\* mode flag is train, and whenever it is inside a validation sweep the flag
\* is eval: the sweep alone runs in eval mode.
C19_ModeFollowsPhase ==
    /\ tpc \in {"epoch", "fetch", "step", "done"} => net_mode = "train"
    /\ tpc \in {"vfetch", "vstep"} => net_mode = "eval"

\* A training step is about to run after a validation sweep that made a
\* forward pass.
C19_Witness ==
    /\ tpc = "step"
    /\ sweeps >= 1
    /\ Len(val_losses) >= 1
    /\ net_mode = "train"

\* B: the batches one epoch of training takes.
BatchesPerEpoch == NBatches(data, batch_size, seq_length)

\* C20: the counter only ever moves by one, at a training step; a sweep
\* follows a training step exactly when the counter, not reset between
\* epochs, has become a multiple of print_every; so the sweeps begun are
\* floor(counter / print_every) throughout, and floor(E * B / print_every)
\* when train has returned.
C20_CounterAndSweeps ==
    /\ [][counter' # counter => (tpc = "step" /\ counter' = counter + 1)]_vars
    /\ [][tpc = "step" =>
            ((tpc' = "vfetch" /\ sweeps' = sweeps + 1)
                <=> counter' % print_every = 0)]_vars
    /\ [][sweeps' # sweeps => tpc = "step"]_vars
    /\ [](sweeps = counter \div print_every)
    /\ [](tpc \in {"fetch", "step"} =>
            counter = e * BatchesPerEpoch + tn \div seq_length)
    /\ [](tpc = "done" =>
            /\ counter = epochs * BatchesPerEpoch
            /\ sweeps = (epochs * BatchesPerEpoch) \div print_every)

\* train has returned after two epochs of three batches, reporting every
\* second step: the third sweep came at step 4, in the second epoch.
C20_Witness ==
    /\ tpc = "done"
    /\ epochs = 2
    /\ BatchesPerEpoch = 3
    /\ print_every = 2
    /\ counter = 6
    /\ sweeps = 3

\* The batches a generator has given when its next window starts at
\* column n: their first columns 0, M, 2M, ..., in order.
Fed(n) == [k \in 1..(n \div seq_length) |-> (k - 1) * seq_length]

\* C21: inside an epoch h holds exactly the training batches of this epoch
\* taken so far, in order: it starts afresh with each epoch and each
\* training step adds its batch to the state the step before left. A
\* validation sweep starts val_h afresh, feeds only val_h, and never writes
\* h, so the next training batch gets the state the last one returned.
C21_TrainingStateThreaded ==
    /\ [](tpc \in {"fetch", "step", "vfetch", "vstep"} => train_h = Fed(tn))
    /\ [](tpc \in {"vfetch", "vstep"} => val_h = Fed(vn))
    /\ [][(tpc = "epoch" /\ tpc' = "fetch") => (train_h' = InitHidden)]_vars
    /\ [][tpc = "step" => (train_h' = Append(train_h, tn))]_vars
    /\ [][(tpc = "step" /\ tpc' = "vfetch") => (val_h' = InitHidden)]_vars
    /\ [][(tpc \in {"vfetch", "vstep"}) => (train_h' = train_h)]_vars
    /\ [][(tpc \in {"fetch", "step"}) =>
            (val_h' = val_h \/ tpc' = "vfetch")]_vars

\* In the second epoch the second training batch is about to be taken,
\* right after a validation sweep that fed val_h: h holds the first batch
\* of this epoch alone.
C21_Witness ==
    /\ tpc = "step"
    /\ e = 1
    /\ train_h = <<0>>
    /\ counter % print_every = 0
    /\ sweeps >= 2
    /\ Len(val_h) >= 1
    /\ BatchesPerEpoch >= 2

====
